---- MODULE Spec2Model ----
(***************************************************************************)
(* Model of MyDataBucket1/lambda_stepfunction.py: the S3 -> RDS CSV loader *)
(* Lambda (lambda_handler, process_csv_file, insert_csv_data,              *)
(* update_processing_status, create_table_if_not_exists,                   *)
(* trigger_step_functions).                                                *)
(*                                                                         *)
(* Text is modelled as a sequence of one-character strings.  The three     *)
(* quote characters are written "DQ" (double quote), "SQ" (single quote)   *)
(* and "BT" (backtick).  Text whose content the code never inspects        *)
(* (bucket names, ARNs, timestamps) is a record [txt, len].                *)
(***************************************************************************)
EXTENDS Integers, Sequences, FiniteSets, TLC

VARIABLES
    env,            \* os.environ as read at lines 276-281
    event,          \* event['Records']
    request_id,     \* context.aws_request_id
    pc,             \* position of the control flow
    i,              \* index of the record the for loop of line 312 is at
    connection,     \* process_csv_file's local `connection`
    columns,        \* process_csv_file's local `columns`
    pos,            \* number of lines csv_reader has consumed
    row_count,      \* insert_csv_data's local `row_count`
    csv_error,      \* the csv.Error being handled at lines 243-255
    file_result,    \* lambda_handler's local `file_result`
    db,             \* committed rows of the table
    tx,             \* rows as seen by the open connection's transaction
    table,          \* stored table definition: <<>> or <<column list>>
    next_id,        \* AUTO_INCREMENT counter of the table
    results,        \* lambda_handler's local `results`
    response,       \* <<>> or <<the value lambda_handler returned>>
    s3_reads,       \* log of s3_client.get_object calls
    connects,       \* log of pymysql.connect calls (record index each)
    sf_calls,       \* log of stepfunctions_client.start_execution calls
    rejected,       \* <<record index, line>> of rows the store rejected
    examined,       \* <<record index, line>> of lines the row loop took
    faults,         \* environment failures so far: <<record index, kind, line>>
    call            \* arguments of a direct trigger_step_functions call

vars == << env, event, request_id, pc, i, connection, columns, pos, row_count,
           csv_error, file_result, db, tx, table, next_id, results, response,
           s3_reads, connects, sf_calls, rejected, examined, faults, call >>

----------------------------------------------------------------------------
(* Bounds *)

MaxFiles == 2       \* longest event['Records'] explored
MaxFaults == 2      \* environment failures injected per invocation
MaxFaultLine == 4   \* last line of an object at which the store rejects a row at will
BigRows == 101      \* data rows of the large object
MaxNameLen == 83    \* longest execution_name handed to trigger_step_functions
MaxSlack == 1       \* payload sizes explored around the truncation threshold

----------------------------------------------------------------------------
(* Python string helpers *)

Min(a, b) == IF a < b THEN a ELSE b

\* s[:n]
Prefix(s, n) == SubSeq(s, 1, Min(n, Len(s)))

\* str.lower(), on the letters that occur in the keys explored
LowerChar(c) ==
    CASE c = "C" -> "c"
      [] c = "S" -> "s"
      [] c = "V" -> "v"
      [] OTHER -> c

Lower(s) == [k \in 1..Len(s) |-> LowerChar(s[k])]

\* str.endswith(suffix)
EndsWith(s, suffix) ==
    /\ Len(s) >= Len(suffix)
    /\ SubSeq(s, Len(s) - Len(suffix) + 1, Len(s)) = suffix

DotCsv == << ".", "c", "s", "v" >>

\* object_key.split('/')[-1]
LastSegment(s) ==
    LET slashes == {k \in 1..Len(s) : s[k] = "/"}
        last == IF slashes = {} THEN 0
                ELSE CHOOSE k \in slashes : \A m \in slashes : m <= k
    IN SubSeq(s, last + 1, Len(s))

\* s.replace(c, '') for every c in chars
RECURSIVE Remove(_, _)
Remove(s, chars) ==
    IF s = << >> THEN << >>
    ELSE IF Head(s) \in chars THEN Remove(Tail(s), chars)
    ELSE << Head(s) >> \o Remove(Tail(s), chars)

\* str.strip()
RECURSIVE LStrip(_)
LStrip(s) ==
    IF s # << >> /\ Head(s) = " " THEN LStrip(Tail(s)) ELSE s

RECURSIVE RStrip(_)
RStrip(s) ==
    IF s # << >> /\ s[Len(s)] = " " THEN RStrip(SubSeq(s, 1, Len(s) - 1)) ELSE s

Strip(s) == RStrip(LStrip(s))

\* col.replace('"', '').replace("'", "").replace('`', '')
CleanColumn(col) == Remove(col, {"DQ", "SQ", "BT"})

CleanColumns(cols) == [k \in 1..Len(cols) |-> CleanColumn(cols[k])]

\* cell.strip().replace('"', '').replace("'", "")
CleanCell(cell) == Remove(Strip(cell), {"DQ", "SQ"})

CleanRow(row) == [k \in 1..Len(row) |-> CleanCell(row[k])]

Range(s) == {s[k] : k \in 1..Len(s)}

----------------------------------------------------------------------------
(* JSON payloads.  A dict is a sequence of items [k, v, n]: key, value and    *)
(* the number of characters json.dumps writes for the value.  json.dumps of  *)
(* a dict is modelled by the items it writes, in order, and the length of    *)
(* the text: "{" + ", ".join('"k": v') + "}".                                 *)

Text(name, length) == [txt |-> name, len |-> length]

\* number of characters of str(n), n >= 0
RECURSIVE Digits(_)
Digits(n) == IF n < 10 THEN 1 ELSE 1 + Digits(n \div 10)

StrItem(key, txt, length) == [k |-> key, v |-> txt, n |-> length + 2]
IntItem(key, value) == [k |-> key, v |-> value, n |-> Digits(value)]
BoolItem(key, value) == [k |-> key, v |-> value, n |-> IF value THEN 4 ELSE 5]

RECURSIVE ItemsLen(_)
ItemsLen(items) ==
    IF items = << >> THEN 0
    ELSE Len(Head(items).k) + 4 + Head(items).n
         + (IF Len(items) > 1 THEN 2 ELSE 0) + ItemsLen(Tail(items))

\* json.dumps(d)
JsonDumps(items) == [items |-> items, len |-> 2 + ItemsLen(items)]

\* d[key] = item.v
SetItem(items, item) ==
    IF \E k \in 1..Len(items) : items[k].k = item.k
    THEN [k \in 1..Len(items) |-> IF items[k].k = item.k THEN item ELSE items[k]]
    ELSE Append(items, item)

----------------------------------------------------------------------------
(* trigger_step_functions *)

\* line 152: 250 * 1024
SizeLimit == 250 * 1024

\* line 162: the Step Functions limit on execution names
NameLimit == 80

\* line 152: len(input_json) > 250 * 1024
TooLargeAtOrAbove(input_json) == input_json.len >= SizeLimit
TooLarge(input_json) == input_json.len > SizeLimit

\* lines 151-157: the text handed to start_execution as `input`
InputJson(input_data) ==
    LET input_json == JsonDumps(input_data)
    IN IF TooLarge(input_json)
       THEN JsonDumps(SetItem(SetItem(input_data,
                                      BoolItem("large_data_warning", TRUE)),
                              IntItem("original_size", input_json.len)))
       ELSE input_json

\* line 162: execution_name[:80]
NameUncut(execution_name) == execution_name
TruncatedName(execution_name) == Prefix(execution_name, NameLimit)

\* lines 159-163: the arguments of stepfunctions_client.start_execution
StartExecution(state_machine_arn, input_data, execution_name) ==
    [ stateMachineArn |-> state_machine_arn,
      input |-> InputJson(input_data),
      name |-> TruncatedName(execution_name) ]

----------------------------------------------------------------------------
(* Inputs: the objects in S3 and the records that name them *)

Row(cells) == [err |-> FALSE, cells |-> cells, msg |-> Text("", 0)]

\* a line on which csv.reader raises csv.Error, with the length of str(e)
BadLine(length) == [err |-> TRUE, cells |-> << >>, msg |-> Text("csv.Error", length)]

HeaderKV == Row(<< <<"k">>, <<"v">> >>)

\* header k,v and rows of 2, 3 and 2 fields
BodyA == << HeaderKV,
            Row(<< <<"1">>, <<"a">> >>),
            Row(<< <<"2">>, <<"b">>, <<"x">> >>),
            Row(<< <<"3">>, <<"c">> >>) >>

\* quoted header "k",'v' and a row with blanks and quotes
BodyQ == << Row(<< <<"DQ", "k", "DQ">>, <<"SQ", "v", "SQ">> >>),
            Row(<< <<" ", "7", " ">>, <<"SQ", "q", "SQ">> >>) >>

\* a line csv.reader cannot parse, after one good row
BodyE == << HeaderKV,
            Row(<< <<"1">>, <<"a">> >>),
            BadLine(1200),
            Row(<< <<"3">>, <<"c">> >>) >>

\* the first line cannot be parsed
BodyH == << BadLine(30) >>

\* an empty object
BodyZ == << >>

\* another header
BodyW == << Row(<< <<"w">> >>), Row(<< <<"5">> >>) >>

\* BigRows good rows, then a line csv.reader cannot parse
BodyB == << HeaderKV >>
         \o [n \in 1..BigRows |-> Row(<< <<"1">>, <<"a">> >>)]
         \o << BadLine(30) >>

\* BigRows good rows
BodyL == << HeaderKV >> \o [n \in 1..BigRows |-> Row(<< <<"1">>, <<"a">> >>)]

RecordIds == {"A", "Q", "N", "E", "H", "Z", "W"}

\* record['s3']['bucket']['name'], record['s3']['object']['key']
Record(id) ==
    CASE id = "A" -> [bucket |-> Text("b1", 2), key |-> <<"a", ".", "c", "s", "v">>]
      [] id = "Q" -> [bucket |-> Text("b2", 2), key |-> <<"d", "/", "a", ".", "c", "s", "v">>]
      [] id = "N" -> [bucket |-> Text("b1", 2), key |-> <<"n", ".", "t", "x", "t">>]
      [] id = "E" -> [bucket |-> Text("b1", 2), key |-> <<"e", ".", "C", "S", "V">>]
      [] id = "H" -> [bucket |-> Text("b1", 2), key |-> <<"h", ".", "c", "s", "v">>]
      [] id = "Z" -> [bucket |-> Text("b1", 2), key |-> <<"z", ".", "c", "s", "v">>]
      [] id = "W" -> [bucket |-> Text("b1", 2), key |-> <<"m", ".", "c", "s", "v">>]
      [] id = "B" -> [bucket |-> Text("b1", 2), key |-> <<"b", ".", "c", "s", "v">>]
      [] id = "L" -> [bucket |-> Text("b1", 2), key |-> <<"l", ".", "c", "s", "v">>]

\* what csv.reader yields for the object the record names
Body(id) ==
    CASE id = "A" -> BodyA
      [] id = "Q" -> BodyQ
      [] id = "N" -> BodyA
      [] id = "E" -> BodyE
      [] id = "H" -> BodyH
      [] id = "Z" -> BodyZ
      [] id = "W" -> BodyW
      [] id = "B" -> BodyB
      [] id = "L" -> BodyL

RECURSIVE SeqsUpTo(_, _)
SeqsUpTo(S, n) ==
    IF n = 0 THEN {<< >>}
    ELSE LET shorter == SeqsUpTo(S, n - 1)
         IN shorter \cup {Append(q, x) : q \in shorter, x \in S}

\* every short batch of small objects, and the large objects: alone, and the
\* one that fails before and after a small one
Events == SeqsUpTo(RecordIds, MaxFiles)
          \cup { <<"B">>, <<"B", "A">>, <<"W", "B">>, <<"L">> }

Arn == <<"a", "r", "n">>

\* a variable the environment does not hold
Unset == "unset"

\* the environment: the two ARNs are texts (<< >> when unset or empty), the
\* other variables are names or Unset
Envs == { [ RDS_SECRET_ARN |-> << >>, STATE_MACHINE_ARN |-> Arn,
            DATABASE_NAME |-> "TestDB", TABLE_NAME |-> "TestTable",
            RDS_INSTANCE_ID |-> "TestInstance", AWS_REGION |-> "eu-west-1",
            REGION |-> Unset ],
          [ RDS_SECRET_ARN |-> Arn, STATE_MACHINE_ARN |-> << >>,
            DATABASE_NAME |-> Unset, TABLE_NAME |-> Unset,
            RDS_INSTANCE_ID |-> Unset, AWS_REGION |-> Unset, REGION |-> Unset ],
          [ RDS_SECRET_ARN |-> Arn, STATE_MACHINE_ARN |-> <<" ">>,
            DATABASE_NAME |-> "TestDB", TABLE_NAME |-> "TestTable",
            RDS_INSTANCE_ID |-> "TestInstance", AWS_REGION |-> Unset,
            REGION |-> "eu-west-2" ],
          [ RDS_SECRET_ARN |-> Arn, STATE_MACHINE_ARN |-> Arn,
            DATABASE_NAME |-> "TestDB", TABLE_NAME |-> Unset,
            RDS_INSTANCE_ID |-> Unset, AWS_REGION |-> Unset, REGION |-> Unset ] }

\* os.environ.get(name, default)
Getenv(name, default) == IF env[name] = Unset THEN default ELSE env[name]

\* lines 277-281
database_name == Getenv("DATABASE_NAME", "MyDatabase")
table_name == Getenv("TABLE_NAME", "UploadedData")
rds_instance_id == Getenv("RDS_INSTANCE_ID", "MyRDSDatabase")
region == Getenv("AWS_REGION", Getenv("REGION", "us-east-1"))

\* line 283: not rds_secret_arn
NothingRequired(environ) == FALSE
MissingSetting(environ) == environ.RDS_SECRET_ARN = << >>

\* context.aws_request_id
RequestIds == { <<"r", "e", "q", "-", "1", "2", "3", "4", "5", "6">> }

----------------------------------------------------------------------------
(* The table in the store *)

Null == Text("", 0)

\* line 113
batch_size == 100

\* lines 177-178: error_message[:997] + "..."
ErrorLimit == 1000
ErrorKeep == 997

\* lines 105-109 and 125: the row an INSERT adds; id is AUTO_INCREMENT, the
\* other metadata columns take their defaults (lines 76-83).  src is not a
\* column: it names the record and line the row was read from.
NewRow(id, file_name, bucket_name, object_key, clean_columns, clean_row, src) ==
    [ id |-> id, file_name |-> file_name, s3_bucket |-> bucket_name,
      s3_key |-> object_key, processed |-> FALSE, rows_count |-> 0,
      error_message |-> Null, cols |-> clean_columns, cells |-> clean_row,
      src |-> src ]

\* the store takes an INSERT only into columns the stored table has
StoreTakes(clean_columns) ==
    /\ table # << >>
    /\ Range(clean_columns) \subseteq Range(table[1])
    /\ Cardinality(Range(clean_columns)) = Len(clean_columns)

\* lines 65-95: CREATE TABLE IF NOT EXISTS
CreateTableAddingColumns(stored, cols) ==
    IF stored = << >> THEN << CleanColumns(cols) >>
    ELSE << stored[1] \o CleanColumns(cols) >>
CreateTableIfNotExists(stored, cols) ==
    IF stored = << >> THEN << CleanColumns(cols) >> ELSE stored

\* lines 177-178
KeepError(error_message) == error_message
TruncateError(error_message) ==
    IF error_message.len > ErrorLimit
    THEN Text(error_message.txt, ErrorKeep + 3)
    ELSE error_message

\* lines 175-192: the rows after the UPDATE ... WHERE file_name = %s
DeleteRows(rows, file_name, rows_count, error_message) ==
    {r \in rows : r.file_name # file_name}
UpdateRows(rows, file_name, rows_count, error_message) ==
    { IF r.file_name = file_name
      THEN [r EXCEPT !.rows_count = rows_count,
                     !.processed = TRUE,
                     !.error_message = IF error_message.len > 0
                                       THEN TruncateError(error_message)
                                       ELSE @]
      ELSE r : r \in rows }

----------------------------------------------------------------------------
(* process_csv_file and lambda_handler, statement by statement *)

rec == Record(event[i])
body == Body(event[i])

\* line 315
file_name == LastSegment(rec.key)

\* line 208
IsCsvUnchecked(object_key) == TRUE
IsCsv(object_key) == EndsWith(Lower(object_key), DotCsv)

\* line 136: row_count % batch_size == 0
BatchNever(count) == FALSE
BatchFull(count) == count % batch_size = 0

\* line 117
RowFitsAlways(row, clean_columns) == TRUE
RowFitsAtLeast(row, clean_columns) == Len(row) >= Len(clean_columns)
RowFits(row, clean_columns) == Len(row) = Len(clean_columns)

CanFail == Cardinality(faults) < MaxFaults

Fault(kind) == faults' = faults \cup {<< i, kind, pos >>}

\* cursor.connection.commit(): the transaction's rows become the committed rows
CommitNothing(transaction) == db
Commit(transaction) == transaction

\* lines 255 and 260: the result of a file that raised
FailedWithoutDetail(kind, detail) == [status |-> "failed"]
FailedAsError(kind, detail) == [status |-> "error", error |-> [kind |-> kind, detail |-> detail]]
Failed(kind, detail) == [status |-> "failed", error |-> [kind |-> kind, detail |-> detail]]

\* lines 257-260: except Exception; the finally clause follows
ExceptExceptionReraise(detail) ==
    [pc |-> "raised", file_result |-> Failed("Processing error", detail)]
ExceptException(detail) ==
    [pc |-> "finally", file_result |-> Failed("Processing error", detail)]

\* lines 130-133: except pymysql.Error inside the row loop
ExceptInsertErrorCounted(count) == [pc |-> "rows", row_count |-> count + 1]
ExceptInsertError(count) == [pc |-> "rows", row_count |-> count]

\* lines 197-199: except Exception in update_processing_status logs and does
\* not raise; the caller goes on to the result it was about to return
ExceptUpdateErrorRaised(result) == Failed("Processing error", "update")
ExceptUpdateError(result) == result

\* lines 264-266
LeaveOpen(conn) == conn
CloseIfOpen(conn) == IF conn = "open" THEN "closed" ELSE conn

\* lines 367-371
NotDowngraded(result, sf_error) == [stepfunctions_error |-> sf_error] @@ result
Downgraded(result, sf_error) ==
    [stepfunctions_error |-> sf_error]
    @@ (IF result.status = "success"
        THEN [result EXCEPT !.status = "partial_success"]
        ELSE result)

inputs == << env, event, request_id, call >>
locals == << connection, columns, pos, row_count, csv_error >>
store == << db, tx, table, next_id >>
logs == << s3_reads, connects, sf_calls, rejected, examined, faults >>

Raise(handler) ==
    /\ pc' = handler.pc
    /\ file_result' = handler.file_result

\* lines 276-284
Start ==
    /\ pc = "start"
    /\ pc' = IF MissingSetting(env) THEN "raised" ELSE "credentials"
    /\ UNCHANGED << inputs, i, locals, file_result, store, results, response, logs >>

\* lines 287-308: get_rds_credentials, and get_rds_endpoint when the secret
\* holds no host; either may raise, which ends the invocation
GetCredentials ==
    /\ pc = "credentials"
    /\ \E outcome \in {"host_in_secret", "host_from_api", "secret_error", "endpoint_error"} :
          pc' = IF outcome \in {"secret_error", "endpoint_error"} THEN "raised" ELSE "loop"
    /\ UNCHANGED << inputs, i, locals, file_result, store, results, response, logs >>

\* lines 312-323 and 203-210: the next record, and the file type check
NextRecord ==
    /\ pc = "loop"
    /\ i < Len(event)
    /\ i' = i + 1
    /\ connection' = "None"
    /\ row_count' = 0
    /\ columns' = << >>
    /\ pos' = 0
    /\ csv_error' = Null
    /\ IF IsCsv(Record(event[i + 1]).key)
       THEN /\ pc' = "get_object"
            /\ file_result' = [status |-> "none"]
       ELSE /\ pc' = "finally"
            /\ file_result' = [status |-> "skipped", reason |-> "Not a CSV file"]
    /\ UNCHANGED << inputs, store, results, response, logs >>

\* lines 213-215
GetObject ==
    /\ pc = "get_object"
    /\ s3_reads' = Append(s3_reads, i)
    /\ \/ /\ pc' = "header"
          /\ UNCHANGED << file_result, faults >>
       \/ /\ CanFail
          /\ Fault("get_object")
          /\ Raise(ExceptException("get_object"))
    /\ UNCHANGED << inputs, i, locals, store, results, response, connects,
                    sf_calls, rejected, examined >>

\* line 218: next(csv_reader)
ReadHeader ==
    /\ pc = "header"
    /\ IF body = << >>
       THEN /\ Raise(ExceptException("StopIteration"))
            /\ UNCHANGED << columns, pos, csv_error >>
       ELSE IF body[1].err
       THEN /\ pc' = "csv_error"
            /\ csv_error' = body[1].msg
            /\ pos' = 1
            /\ UNCHANGED << columns, file_result >>
       ELSE /\ pc' = "connect"
            /\ columns' = body[1].cells
            /\ pos' = 1
            /\ UNCHANGED << csv_error, file_result >>
    /\ UNCHANGED << inputs, i, connection, row_count, store, results, response, logs >>

\* line 222: pymysql.connect, autocommit off
Connect ==
    /\ pc = "connect"
    /\ \/ /\ connection' = "open"
          /\ tx' = db
          /\ connects' = Append(connects, [record |-> i, ok |-> TRUE])
          /\ pc' = "create_table"
          /\ UNCHANGED << file_result, faults >>
       \/ /\ CanFail
          /\ Fault("connect")
          /\ connects' = Append(connects, [record |-> i, ok |-> FALSE])
          /\ Raise(ExceptException("connect"))
          /\ UNCHANGED << connection, tx >>
    /\ UNCHANGED << inputs, i, columns, pos, row_count, csv_error, db, table,
                    next_id, results, response, s3_reads, sf_calls, rejected,
                    examined >>

\* line 226
CreateTable ==
    /\ pc = "create_table"
    /\ \/ /\ table' = CreateTableIfNotExists(table, columns)
          /\ pc' = "rows"
          /\ UNCHANGED << file_result, faults >>
       \/ /\ CanFail
          /\ Fault("create_table")
          /\ Raise(ExceptException("create_table"))
          /\ UNCHANGED table
    /\ UNCHANGED << inputs, i, locals, db, tx, next_id, results, response,
                    s3_reads, connects, sf_calls, rejected, examined >>

\* lines 115-138: one turn of the row loop
InsertRow ==
    /\ pc = "rows"
    /\ pos < Len(body)
    /\ LET line == body[pos + 1]
           clean_columns == CleanColumns(columns)
           full_row == NewRow(next_id, file_name, rec.bucket, rec.key,
                              clean_columns, CleanRow(line.cells), << i, pos + 1 >>)
           inserted == tx \cup {full_row}
       IN /\ pos' = pos + 1
          /\ examined' = examined \cup {<< i, pos + 1 >>}
          /\ \/ /\ line.err
                /\ pc' = "csv_error"
                /\ csv_error' = line.msg
                /\ UNCHANGED << row_count, file_result, store, rejected, faults >>
             \/ /\ ~line.err
                /\ ~RowFits(line.cells, clean_columns)
                /\ UNCHANGED << pc, csv_error, row_count, file_result, store,
                                rejected, faults >>
             \/ /\ ~line.err
                /\ RowFits(line.cells, clean_columns)
                /\ StoreTakes(clean_columns)
                /\ tx' = inserted
                /\ next_id' = next_id + 1
                /\ row_count' = row_count + 1
                /\ IF BatchFull(row_count + 1)
                   THEN \/ /\ db' = Commit(inserted)
                           /\ UNCHANGED << pc, file_result, faults >>
                        \/ /\ CanFail
                           /\ Fault("commit")
                           /\ Raise(ExceptException("commit"))
                           /\ UNCHANGED db
                   ELSE UNCHANGED << pc, file_result, faults, db >>
                /\ UNCHANGED << csv_error, table, rejected >>
             \/ /\ ~line.err
                /\ RowFits(line.cells, clean_columns)
                /\ \/ /\ ~StoreTakes(clean_columns)
                      /\ UNCHANGED faults
                   \/ /\ CanFail
                      /\ pos + 1 <= MaxFaultLine
                      /\ Fault("insert")
                /\ rejected' = rejected \cup {<< i, pos + 1 >>}
                /\ pc' = ExceptInsertError(row_count).pc
                /\ row_count' = ExceptInsertError(row_count).row_count
                /\ UNCHANGED << csv_error, file_result, store >>
    /\ UNCHANGED << inputs, i, connection, columns, results, response,
                    s3_reads, connects, sf_calls >>

\* lines 140-143: the final commit, once csv_reader is exhausted
FinalCommitOmitted ==
    /\ pc = "rows"
    /\ pos = Len(body)
    /\ pc' = "status_update"
    /\ UNCHANGED << inputs, i, locals, file_result, store, results, response, logs >>
FinalCommit ==
    /\ pc = "rows"
    /\ pos = Len(body)
    /\ \/ /\ db' = Commit(tx)
          /\ pc' = "status_update"
          /\ UNCHANGED << file_result, faults >>
       \/ /\ CanFail
          /\ Fault("commit")
          /\ Raise(ExceptException("commit"))
          /\ UNCHANGED db
    /\ UNCHANGED << inputs, i, locals, tx, table, next_id, results, response,
                    s3_reads, connects, sf_calls, rejected, examined >>

\* lines 172-199: update_processing_status; it logs and swallows any error
UpdateProcessingStatus(rows_count, error_message, result) ==
    LET updated == UpdateRows(tx, file_name, rows_count, error_message)
    IN \/ /\ tx' = updated
          /\ db' = Commit(updated)
          /\ file_result' = result
          /\ UNCHANGED faults
       \/ /\ CanFail
          /\ Fault("update_execute")
          /\ file_result' = ExceptUpdateError(result)
          /\ UNCHANGED << tx, db >>
       \/ /\ CanFail
          /\ Fault("update_commit")
          /\ tx' = updated
          /\ file_result' = ExceptUpdateError(result)
          /\ UNCHANGED db

\* lines 232-241
StatusUpdate ==
    /\ pc = "status_update"
    /\ UpdateProcessingStatus(row_count, Null,
                              [ status |-> "success",
                                rows_inserted |-> row_count,
                                columns_processed |-> Len(columns) ])
    /\ pc' = "finally"
    /\ UNCHANGED << inputs, i, locals, table, next_id, results, response,
                    s3_reads, connects, sf_calls, rejected, examined >>

\* lines 243-255: except csv.Error
ExceptCsvErrorEscapes ==
    /\ pc = "csv_error"
    /\ pc' = "raised"
    /\ UNCHANGED << inputs, i, locals, file_result, store, results, response, logs >>
ExceptCsvError ==
    /\ pc = "csv_error"
    /\ LET error_msg == Text("CSV parsing error", 19 + csv_error.len)
           result == Failed("CSV parsing error", "csv.Error")
       IN IF connection = "open"
          THEN UpdateProcessingStatus(0, error_msg, result)
          ELSE /\ file_result' = result
               /\ UNCHANGED << tx, db, faults >>
    /\ pc' = "finally"
    /\ UNCHANGED << inputs, i, locals, table, next_id, results, response,
                    s3_reads, connects, sf_calls, rejected, examined >>

\* lines 262-268: finally; closing drops what the transaction had not committed
Finally ==
    /\ pc = "finally"
    /\ connection' = CloseIfOpen(connection)
    /\ tx' = IF connection' = "open" THEN tx ELSE {}
    /\ pc' = "notify"
    /\ UNCHANGED << inputs, i, columns, pos, row_count, csv_error, file_result,
                    db, table, next_id, results, response, logs >>

\* lines 338-351: the payload of the workflow
InputData(bucket_name, object_key, database, table_, rows_inserted, columns_processed, lambda_request_id, rds_instance, secret_arn) ==
    << StrItem("bucket", bucket_name, bucket_name.len),
       StrItem("key", object_key, Len(object_key)),
       StrItem("file_name", LastSegment(object_key), Len(LastSegment(object_key))),
       StrItem("database", database, Len(database)),
       StrItem("table", table_, Len(table_)),
       IntItem("rows_processed", rows_inserted),
       IntItem("columns_processed", columns_processed),
       StrItem("status", "success", Len("success")),
       StrItem("timestamp", "utcnow", Len("2026-01-01T00:00:00.000000")),
       StrItem("lambda_request_id", lambda_request_id, Len(lambda_request_id)),
       StrItem("rds_instance", rds_instance, Len(rds_instance)),
       StrItem("secret_arn", secret_arn, Len(secret_arn)) >>

\* lines 354-355: f"s3-upload-{timestamp}-{context.aws_request_id[:8]}"
ExecutionName(lambda_request_id) ==
    <<"s", "3", "-", "u", "p", "l", "o", "a", "d", "-">>
    \o <<"2", "0", "2", "6", "0", "1", "0", "1", "-", "0", "0", "0", "0", "0", "0">>
    \o <<"-">> \o Prefix(lambda_request_id, 8)

\* lines 334-335
ShouldTriggerWithoutArn(state_machine_arn, result) == result.status = "success"
ShouldTrigger(state_machine_arn, result) ==
    /\ state_machine_arn # << >>
    /\ Strip(state_machine_arn) # << >>
    /\ result.status = "success"

\* lines 325-373: the file's result, the workflow dispatch, results.append
Notify ==
    /\ pc = "notify"
    /\ LET result == file_result @@ [ bucket |-> rec.bucket, key |-> rec.key,
                                      file_name |-> file_name, timestamp |-> "utcnow" ]
           input_data == InputData(rec.bucket, rec.key, database_name, table_name,
                                   file_result.rows_inserted,
                                   file_result.columns_processed, request_id,
                                   rds_instance_id, env.RDS_SECRET_ARN)
           started == StartExecution(env.STATE_MACHINE_ARN, input_data,
                                     ExecutionName(request_id))
       IN IF ShouldTrigger(env.STATE_MACHINE_ARN, file_result)
          THEN \/ /\ sf_calls' = Append(sf_calls, [record |-> i, args |-> started,
                                                   region |-> region,
                                                   passed |-> input_data, ok |-> TRUE])
                  /\ results' = Append(results,
                                       [stepfunctions_execution_arn |-> Len(sf_calls) + 1]
                                       @@ result)
                  /\ UNCHANGED faults
               \/ /\ CanFail
                  /\ Fault("start_execution")
                  /\ sf_calls' = Append(sf_calls, [record |-> i, args |-> started,
                                                   region |-> region,
                                                   passed |-> input_data, ok |-> FALSE])
                  /\ results' = Append(results, Downgraded(result, "sf_error"))
          ELSE /\ results' = Append(results, result)
               /\ UNCHANGED << sf_calls, faults >>
    /\ pc' = "loop"
    /\ UNCHANGED << inputs, i, locals, file_result, store, response, s3_reads,
                    connects, rejected, examined >>

CountStatus(rs, status) == Cardinality({k \in 1..Len(rs) : rs[k].status = status})

RowsInsertedOfSuccess(r) ==
    IF r.status = "success" /\ "rows_inserted" \in DOMAIN r THEN r.rows_inserted ELSE 0
\* r.get('rows_inserted', 0)
RowsInserted(r) == IF "rows_inserted" \in DOMAIN r THEN r.rows_inserted ELSE 0

RECURSIVE SumRows(_)
SumRows(rs) == IF rs = << >> THEN 0 ELSE RowsInserted(Head(rs)) + SumRows(Tail(rs))

\* lines 376-393
Summary(rs, records) ==
    [ total_files |-> Len(records),
      successful_files |-> CountStatus(rs, "success"),
      partial_success_files |-> CountStatus(rs, "partial_success"),
      failed_files |-> CountStatus(rs, "failed"),
      skipped_files |-> CountStatus(rs, "skipped"),
      total_rows_inserted |-> SumRows(rs),
      stepfunctions_triggered |->
          Cardinality({k \in 1..Len(rs) : "stepfunctions_execution_arn" \in DOMAIN rs[k]}) ]

\* lines 375-412: the for loop is over, the response is returned
Respond ==
    /\ pc = "loop"
    /\ i = Len(event)
    /\ response' = << [ statusCode |-> 200,
                        summary |-> Summary(results, event),
                        results |-> results ] >>
    /\ pc' = "done"
    /\ UNCHANGED << inputs, i, locals, file_result, store, results, logs >>

NoCall == [ state_machine_arn |-> << >>, input_data |-> << >>,
            execution_name |-> << >>, region |-> "" ]

Init ==
    /\ env \in Envs
    /\ event \in Events
    /\ request_id \in RequestIds
    /\ call = NoCall
    /\ pc = "start"
    /\ i = 0
    /\ connection = "None"
    /\ columns = << >>
    /\ pos = 0
    /\ row_count = 0
    /\ csv_error = Null
    /\ file_result = [status |-> "none"]
    /\ db = {}
    /\ tx = {}
    /\ table = << >>
    /\ next_id = 1
    /\ results = << >>
    /\ response = << >>
    /\ s3_reads = << >>
    /\ connects = << >>
    /\ sf_calls = << >>
    /\ rejected = {}
    /\ examined = {}
    /\ faults = {}

Next ==
    \/ Start
    \/ GetCredentials
    \/ NextRecord
    \/ GetObject
    \/ ReadHeader
    \/ Connect
    \/ CreateTable
    \/ InsertRow
    \/ FinalCommit
    \/ StatusUpdate
    \/ ExceptCsvError
    \/ Finally
    \/ Notify
    \/ Respond

Spec == Init /\ [][Next]_vars

\* the handler is one sequential thread that the runtime runs until it returns
\* or raises, and every call it makes returns or raises: a step that can be
\* taken is taken
SpecLive == Init /\ [][Next]_vars /\ WF_vars(Next)

----------------------------------------------------------------------------
(* trigger_step_functions called on its own, with payloads whose size is     *)
(* around the limit and execution names of every length up to MaxNameLen     *)

NameOfLength(n) == [k \in 1..n |-> "x"]

PayloadWithBucket(n) ==
    InputData(Text("bucket", n), <<"a", ".", "c", "s", "v">>, "MyDatabase",
              "UploadedData", 50, 2, <<"r", "e", "q">>, "MyRDSDatabase", Arn)

PayloadSizes ==
    LET base == JsonDumps(PayloadWithBucket(0)).len
    IN {base + 3} \cup {SizeLimit + d : d \in (0 - MaxSlack)..MaxSlack}

Calls ==
    { [ state_machine_arn |-> Arn,
        input_data |-> PayloadWithBucket(size - JsonDumps(PayloadWithBucket(0)).len),
        execution_name |-> NameOfLength(n),
        region |-> "us-east-1" ] :
      size \in PayloadSizes, n \in 0..MaxNameLen }

InitNotify ==
    /\ env = [ RDS_SECRET_ARN |-> Arn, STATE_MACHINE_ARN |-> Arn,
               DATABASE_NAME |-> Unset, TABLE_NAME |-> Unset,
               RDS_INSTANCE_ID |-> Unset, AWS_REGION |-> Unset, REGION |-> Unset ]
    /\ event = << >>
    /\ request_id = << >>
    /\ call \in Calls
    /\ pc = "trigger"
    /\ i = 0
    /\ connection = "None"
    /\ columns = << >>
    /\ pos = 0
    /\ row_count = 0
    /\ csv_error = Null
    /\ file_result = [status |-> "none"]
    /\ db = {}
    /\ tx = {}
    /\ table = << >>
    /\ next_id = 1
    /\ results = << >>
    /\ response = << >>
    /\ s3_reads = << >>
    /\ connects = << >>
    /\ sf_calls = << >>
    /\ rejected = {}
    /\ examined = {}
    /\ faults = {}

\* lines 145-170
TriggerStepFunctions ==
    /\ pc = "trigger"
    /\ LET started == StartExecution(call.state_machine_arn, call.input_data,
                                     call.execution_name)
       IN \/ /\ sf_calls' = Append(sf_calls, [record |-> 0, args |-> started,
                                               region |-> call.region,
                                               passed |-> call.input_data, ok |-> TRUE])
             /\ pc' = "returned"
          \/ /\ sf_calls' = Append(sf_calls, [record |-> 0, args |-> started,
                                               region |-> call.region,
                                               passed |-> call.input_data, ok |-> FALSE])
             /\ pc' = "raised"
    /\ UNCHANGED << inputs, i, locals, file_result, store, results, response,
                    s3_reads, connects, rejected, examined, faults >>

NextNotify == TriggerStepFunctions

SpecNotify == InitNotify /\ [][NextNotify]_vars

----------------------------------------------------------------------------
(* Properties *)

Finished == 1..Len(results)

\* lines of the object of record j that hold a data row with as many fields
\* as the header
FittingLines(j) ==
    LET lines == Body(event[j])
    IN {p \in 2..Len(lines) : ~lines[p].err /\ Len(lines[p].cells) = Len(lines[1].cells)}

StoredLines(j) == {r.src[2] : r \in {x \in db : x.src[1] = j}}

RejectedLines(j) == {p \in 2..Len(Body(event[j])) : << j, p >> \in rejected}

Ingested(j) == results[j].status \in {"success", "partial_success"}

\* C1, as stated: for every file that ends in a non-failed status,
\* rows_inserted is the number of data rows whose field count equals the
\* header's field count.
C1_RowsInsertedCountsEveryFittingRow ==
    \A j \in Finished :
        Ingested(j) => results[j].rows_inserted = Cardinality(FittingLines(j))

\* C1, amended: for every file that ends in a non-failed status, rows_inserted
\* is the number of data rows whose field count equals the header's field
\* count and whose insertion the store did not reject.
C1_RowsInsertedCountsAcceptedFittingRows ==
    \A j \in Finished :
        Ingested(j) =>
            results[j].rows_inserted = Cardinality(FittingLines(j) \ RejectedLines(j))

\* header of 2 fields, rows of 2, 3 and 2 fields, one of the fitting rows
\* rejected by the store: 1 row inserted
C1_Witness ==
    \E j \in Finished :
        /\ event[j] = "A"
        /\ Ingested(j)
        /\ Cardinality(FittingLines(j)) = 2
        /\ Cardinality(RejectedLines(j)) = 1
        /\ results[j].rows_inserted = 1

Statuses == {"success", "partial_success", "failed", "skipped"}

\* C2: a returned response holds one result per input record, in input order,
\* each with one of the four statuses, and the four counts add up to
\* total_files; the invocation is only ever abandoned before the first file.
C2_OneResultPerRecord ==
    /\ pc = "raised" => i = 0 /\ results = << >>
    /\ response # << >> =>
        LET body_ == response[1]
            sum == body_.summary
        IN /\ Len(body_.results) = Len(event)
           /\ \A j \in 1..Len(event) :
                 /\ body_.results[j].bucket = Record(event[j]).bucket
                 /\ body_.results[j].key = Record(event[j]).key
                 /\ body_.results[j].status \in Statuses
           /\ sum.total_files = Len(event)
           /\ sum.successful_files + sum.partial_success_files
              + sum.failed_files + sum.skipped_files = sum.total_files

\* a response over two records, the first failed by an injected failure
C2_Witness ==
    /\ response # << >>
    /\ Len(response[1].results) = 2
    /\ response[1].results[1].status = "failed"
    /\ \E f \in faults : f[1] = 1
    /\ response[1].results[2].status = "success"

\* C3: a file whose dispatch failed has status partial_success, the
\* rows_inserted value its ingestion returned, exactly that many rows of its
\* own committed in the store, and the invocation goes on.
C3_DispatchFailureDowngrades ==
    /\ \A j \in Finished :
          "stepfunctions_error" \in DOMAIN results[j] =>
              /\ results[j].status = "partial_success"
              /\ results[j].rows_inserted = Cardinality(StoredLines(j))
              /\ (j = i => results[j].rows_inserted = file_result.rows_inserted)
              /\ pc # "raised"
    /\ pc = "done" => Len(results) = Len(event)

\* the dispatch of the first file failed after 2 rows, the second file is done
C3_Witness ==
    /\ Len(results) = 2
    /\ "stepfunctions_error" \in DOMAIN results[1]
    /\ results[1].rows_inserted = 2
    /\ Cardinality(StoredLines(1)) = 2
    /\ results[2].status = "success"

ConnectFailed(j) == \E k \in 1..Len(connects) : connects[k] = [record |-> j, ok |-> FALSE]

\* C4, as stated: when the store connection cannot be established the whole
\* invocation is abandoned and no per-file result is produced.
C4_ConnectFailureAbortsInvocation ==
    (\E j \in 1..Len(event) : ConnectFailed(j)) => results = << >> /\ response = << >>

\* C4, amended: the connection is opened after the header was read; when it
\* cannot be established the file ends failed with an error detail, its result
\* is produced, and the invocation goes on to the next file and returns.
C4_ConnectFailureFailsTheFile ==
    /\ \A j \in 1..Len(event) :
          ConnectFailed(j) =>
              /\ pc # "raised"
              /\ j = i => pos >= 1
              /\ j = i /\ j \notin Finished => file_result.status = "failed"
              /\ j \in Finished =>
                    /\ results[j].status = "failed"
                    /\ results[j].error.kind = "Processing error"
    /\ pc = "done" => Len(results) = Len(event)

\* the connection for the first file failed and both files have their result
C4_Witness ==
    /\ ConnectFailed(1)
    /\ response # << >>
    /\ Len(results) = 2
    /\ results[1].status = "failed"
    /\ results[2].status = "success"

NotCsv(id) == ~EndsWith(Lower(Record(id).key), <<".", "c", "s", "v">>)

\* C5: a record whose key does not end in .csv gets status skipped, and no
\* step taken for it reads an object, opens a connection, creates the table,
\* changes a row or dispatches a workflow.
C5_NonCsvIsSkippedAndTouchesNothing ==
    /\ [](\A j \in Finished : NotCsv(event[j]) => results[j].status = "skipped")
    /\ [][ (i' > 0 /\ NotCsv(event[i'])) =>
              /\ db' = db
              /\ tx' = tx
              /\ table' = table
              /\ next_id' = next_id
              /\ connection' = "None"
              /\ s3_reads' = s3_reads
              /\ connects' = connects
              /\ sf_calls' = sf_calls ]_vars

\* a .txt record was skipped after a file that left rows in the store
C5_Witness ==
    /\ Len(results) = 2
    /\ event[2] = "N"
    /\ results[2].status = "skipped"
    /\ results[1].status = "success"
    /\ db # {}
    /\ table # << >>

\* C6: no whole-file rollback: a row that is committed stays in the store,
\* with the cells it was inserted with, in every later step of the file and
\* of the files after it.
C6_CommittedRowsStay ==
    [][ \A r \in db : \E kept \in db' :
            /\ kept.id = r.id
            /\ kept.src = r.src
            /\ kept.cells = r.cells
            /\ kept.s3_key = r.s3_key ]_vars

\* the large file failed on a parse error after its first batch commit, its
\* committed rows are in the store, and a later file has been processed
C6_Witness ==
    /\ Len(results) = 2
    /\ event[1] = "B"
    /\ results[1].status = "failed"
    /\ Cardinality(StoredLines(1)) >= batch_size
    /\ results[2].status = "success"
    /\ pc = "done"

FatalKinds == {"get_object", "connect", "create_table", "commit"}

\* record j names a CSV object that parses to the end, and nothing but row
\* insertions failed while it was processed
OnlyRowsRejected(j) ==
    /\ ~NotCsv(event[j])
    /\ Body(event[j]) # << >>
    /\ \A p \in 1..Len(Body(event[j])) : ~Body(event[j])[p].err
    /\ \A f \in faults : f[1] = j => f[2] \notin FatalKinds

\* C7: a row the store rejects is not stored and not counted, every line
\* after it is still taken, and rejections alone never make the file failed.
C7_RejectedRowIsSkipped ==
    \A j \in Finished :
        /\ \A p \in RejectedLines(j) : p \notin StoredLines(j)
        /\ (OnlyRowsRejected(j) /\ RejectedLines(j) # {}) =>
              /\ results[j].status # "failed"
              /\ \A p \in 2..Len(Body(event[j])) : << j, p >> \in examined
              /\ results[j].rows_inserted + Cardinality(RejectedLines(j))
                    = Cardinality(FittingLines(j))
              /\ StoredLines(j) = FittingLines(j) \ RejectedLines(j)

\* the store rejected line 2 of a file at will; line 4 of the same file was
\* inserted afterwards and the file ended success
C7_Witness ==
    \E j \in Finished :
        /\ << j, "insert", 1 >> \in faults
        /\ 2 \in RejectedLines(j)
        /\ 4 \in StoredLines(j)
        /\ results[j].status = "success"
        /\ results[j].rows_inserted = 1

Marked(input_json) ==
    \E k \in 1..Len(input_json.items) :
        input_json.items[k].k = "large_data_warning" /\ input_json.items[k].v = TRUE

RecordsSize(input_json, size) ==
    \E k \in 1..Len(input_json.items) :
        input_json.items[k].k = "original_size" /\ input_json.items[k].v = size

Dispatched == {sf_calls[k] : k \in 1..Len(sf_calls)}

\* C8: the dispatched input carries the truncation mark and the original size
\* exactly when the serialized payload is longer than 250 * 1024; otherwise
\* it is the serialization of the payload that was passed in.
C8_TruncationIffOverLimit ==
    \A c \in Dispatched :
        LET given == JsonDumps(c.passed)
        IN /\ Marked(c.args.input) <=> given.len > 250 * 1024
           /\ given.len > 250 * 1024 => RecordsSize(c.args.input, given.len)
           /\ given.len <= 250 * 1024 => c.args.input = given

\* a payload one character over the limit was dispatched with the mark
C8_Witness ==
    \E c \in Dispatched :
        /\ JsonDumps(c.passed).len = 250 * 1024 + 1
        /\ Marked(c.args.input)
        /\ RecordsSize(c.args.input, 250 * 1024 + 1)

\* C9: every execution name handed to start_execution has at most 80
\* characters.
C9_ExecutionNameAtMost80 ==
    \A c \in Dispatched : Len(c.args.name) <= 80

\* a name of more than 80 characters was passed in and 80 were dispatched
C9_Witness ==
    \E c \in Dispatched :
        /\ Len(call.execution_name) > 80
        /\ Len(c.args.name) = 80

\* C10: a connection opened for a file is closed on every way out of the
\* file: none is open, and no transaction is pending, once the file's
\* processing has returned, when the next file starts and when the
\* invocation ends.
C10_ConnectionClosedAfterFile ==
    pc \in {"start", "credentials", "notify", "loop", "done", "raised"} =>
        /\ connection # "open"
        /\ tx = {}

ConnectedFor(j) == \E k \in 1..Len(connects) : connects[k] = [record |-> j, ok |-> TRUE]

\* the files of a batch went out by a parse error in the row stream and by
\* the normal return, each with a connection, and none is open at the end
C10_Witness ==
    /\ pc = "done"
    /\ Len(results) = 2
    /\ ConnectedFor(1) /\ ConnectedFor(2)
    /\ results[1].status = "failed" /\ results[1].error.kind = "CSV parsing error"
    /\ results[2].status = "success"
    /\ connection = "closed"

\* C11: creating the table again with the same column names raises nothing
\* and leaves the stored definition as the first call left it, one table
\* without a duplicate column; the file that did so does not fail for it.
C11_CreateTableIsIdempotent ==
    /\ [](table # << >> =>
             /\ Len(table) = 1
             /\ Cardinality(Range(table[1])) = Len(table[1]))
    /\ [][ (pc = "create_table" /\ table # << >>
            /\ table[1] = CleanColumns(columns) /\ faults' = faults) =>
               /\ table' = table
               /\ pc' = "rows" ]_vars

\* the second file of a batch has passed its create-table call with the
\* columns the first file created the table with
C11_Witness ==
    /\ i = 2
    /\ event = << "A", "Q" >>
    /\ pc = "rows"
    /\ ConnectedFor(1)
    /\ table = << CleanColumns(columns) >>
    /\ StoredLines(1) # {}

Anything == s3_reads # << >> \/ connects # << >> \/ sf_calls # << >>
            \/ results # << >> \/ response # << >> \/ db # {} \/ table # << >>

\* C12, as stated: when any of the settings is missing (secret reference,
\* instance identifier, database name, table name, workflow reference, region)
\* the invocation fails before any file is processed.
C12_AnyMissingSettingFails ==
    ( \/ env.RDS_SECRET_ARN = << >>
      \/ env.STATE_MACHINE_ARN = << >>
      \/ env.DATABASE_NAME = Unset
      \/ env.TABLE_NAME = Unset
      \/ env.RDS_INSTANCE_ID = Unset
      \/ (env.AWS_REGION = Unset /\ env.REGION = Unset) )
    => ~Anything

\* C12, amended: when the secret reference is missing the invocation fails
\* before any file is processed: no object read, no connection, no dispatch,
\* no result; every other setting has a default and its absence does not
\* stop the invocation at the configuration check.
C12_MissingSecretFails ==
    /\ [](env.RDS_SECRET_ARN = << >> =>
             ~Anything /\ i = 0 /\ pc \in {"start", "raised"})
    /\ [][ (pc = "start" /\ env.RDS_SECRET_ARN # << >>) => pc' = "credentials" ]_vars

\* an invocation with records to process was abandoned for the missing secret
C12_Witness ==
    /\ env.RDS_SECRET_ARN = << >>
    /\ Len(event) = 2
    /\ pc = "raised"
    /\ ~Anything

\* record j names a CSV object that cannot be read, has no header or an
\* unreadable one, or whose connection or table creation failed
FatalBeforeCommit(j) ==
    /\ ~NotCsv(event[j])
    /\ \/ Body(event[j]) = << >>
       \/ Body(event[j])[1].err
       \/ \E f \in faults : f[1] = j /\ f[2] \in {"get_object", "connect", "create_table"}

\* C13: a file that meets a fatal condition before its first commit ends
\* failed with an error detail, no row of it is ever in the store or in a
\* transaction, and the invocation goes on with the next file.
C13_FatalBeforeCommitFailsTheFile ==
    /\ \A j \in 1..i :
          FatalBeforeCommit(j) =>
              /\ \A r \in db \cup tx : r.src[1] # j
              /\ pc # "raised"
              /\ j \in Finished =>
                    /\ results[j].status = "failed"
                    /\ "error" \in DOMAIN results[j]
                    /\ results[j].error.kind \in {"Processing error", "CSV parsing error"}
    /\ pc = "done" => Len(results) = Len(event)

\* the first file had an unreadable header and failed, the second file was
\* loaded after it
C13_Witness ==
    /\ pc = "done"
    /\ event = << "H", "A" >>
    /\ FatalBeforeCommit(1)
    /\ results[1].status = "failed"
    /\ results[1].error.kind = "CSV parsing error"
    /\ results[2].status = "success"
    /\ StoredLines(2) # {}

Ids(rows) == {r.id : r \in rows}

\* the rows of the current file the open transaction has inserted and no
\* commit has made durable
Uncommitted == {r \in tx : r.src[1] = i /\ r.id \notin Ids(db)}

\* C14: between two turns of the row loop the inserted rows that are not
\* committed are row_count modulo 100, fewer than 100; when the ingestion has
\* returned, every inserted row is committed and they are row_count many.
C14_BatchedCommits ==
    /\ pc = "rows" =>
          /\ Cardinality({r \in tx : r.src[1] = i}) = row_count
          /\ Cardinality(Uncommitted) = row_count % 100
          /\ Cardinality(Uncommitted) < 100
    /\ pc = "status_update" =>
          /\ Uncommitted = {}
          /\ Cardinality(StoredLines(i)) = row_count

\* a file of more than 100 rows has returned from the ingestion: a batch
\* commit and the final commit were taken
C14_Witness ==
    /\ pc = "status_update"
    /\ row_count = BigRows
    /\ row_count > batch_size
    /\ Cardinality(StoredLines(i)) = row_count

\* the place of a control position in the course of one file: validating and
\* fetching, ensuring the schema, ingesting, updating the status, releasing
\* the connection, notifying the workflow, done
Rank(p) ==
    CASE p = "get_object" -> 1
      [] p = "header" -> 2
      [] p = "connect" -> 3
      [] p = "create_table" -> 4
      [] p = "rows" -> 5
      [] p \in {"status_update", "csv_error"} -> 6
      [] p = "finally" -> 7
      [] p = "notify" -> 8
      [] p = "loop" -> 9
      [] p = "done" -> 10
      [] OTHER -> 0

StatusUpdateFailed(j) ==
    \E f \in faults : f[1] = j /\ f[2] \in {"update_execute", "update_commit"}

\* C15: within one file the phases only move forward and only the row loop
\* repeats; a row is inserted only in the row loop with the table in place;
\* the status update of a successful file finds all its rows committed; a
\* workflow is dispatched only for a file whose status update is behind it.
C15_PhasesInOrder ==
    /\ [][ (i' = i /\ i > 0) =>
              /\ Rank(pc') >= Rank(pc)
              /\ (pc' = pc => pc = "rows") ]_vars
    /\ [][ next_id' # next_id =>
              /\ pc = "rows"
              /\ table # << >>
              /\ Range(CleanColumns(columns)) \subseteq Range(table[1]) ]_vars
    /\ [](pc = "status_update" =>
              /\ Uncommitted = {}
              /\ Cardinality(StoredLines(i)) = row_count)
    /\ [][ (file_result'.status = "success" /\ file_result.status # "success") =>
              pc = "status_update" ]_vars
    /\ [][ sf_calls' # sf_calls =>
              /\ pc = "notify"
              /\ file_result.status = "success"
              /\ connection = "closed"
              /\ (~StatusUpdateFailed(i) =>
                     \A r \in db : r.src[1] = i =>
                         r.processed /\ r.rows_count = file_result.rows_inserted) ]_vars

\* a file went through every phase: its rows are stored and marked processed
\* and its workflow was started
C15_Witness ==
    /\ pc = "loop"
    /\ i = 1
    /\ "stepfunctions_execution_arn" \in DOMAIN results[1]
    /\ Cardinality(StoredLines(1)) = 2
    /\ \A r \in db : r.processed /\ r.rows_count = 2

\* one token per row a result reports as inserted
ReportedRows ==
    UNION { {<<k, n>> : n \in 1..(IF "rows_inserted" \in DOMAIN results[k]
                                  THEN results[k].rows_inserted ELSE 0)}
            : k \in 1..Len(results) }

\* C16: the summary's total_rows_inserted is the sum of the results'
\* rows_inserted, 0 where a result has none, and its stepfunctions_triggered
\* is the number of files whose dispatch returned an execution identifier.
C16_SummaryAggregates ==
    response # << >> =>
        /\ response[1].results = results
        /\ response[1].summary.total_rows_inserted = Cardinality(ReportedRows)
        /\ response[1].summary.stepfunctions_triggered =
               Cardinality({c \in Dispatched : c.ok})
        /\ Cardinality({c \in Dispatched : c.ok}) =
               Cardinality({c.record : c \in {d \in Dispatched : d.ok}})

\* two files were answered: one stored 2 rows and lost its dispatch, the other
\* stored 1 row and started its workflow
C16_Witness ==
    /\ response # << >>
    /\ Len(results) = 2
    /\ results[1].status = "partial_success"
    /\ results[1].rows_inserted = 2
    /\ results[2].status = "success"
    /\ response[1].summary.total_rows_inserted = 3
    /\ response[1].summary.stepfunctions_triggered = 1

\* the data lines of file j whose field count differs from the header's
MisfitLines(j) ==
    LET lines == Body(event[j])
    IN {p \in 2..Len(lines) : ~lines[p].err /\ Len(lines[p].cells) # Len(lines[1].cells)}

\* C17: no row of the store, committed or not, comes from a data row whose
\* field count differs from the header's, none holds a part of one, no
\* insertion of one is ever attempted, and a row is examined once: the reader
\* moves past it and never comes back.
C17_MisfitRowNeverInserted ==
    /\ [](\A r \in db \cup tx :
              /\ r.src[2] \notin MisfitLines(r.src[1])
              /\ Len(r.cells) = Len(r.cols))
    /\ [](\A e \in rejected : e[2] \notin MisfitLines(e[1]))
    /\ [][ examined' # examined =>
              /\ << i, pos + 1 >> \notin examined
              /\ examined' = examined \cup {<< i, pos + 1 >>}
              /\ pos' = pos + 1
              /\ (pos + 1 \in MisfitLines(i) =>
                     /\ tx' = tx /\ db' = db /\ next_id' = next_id
                     /\ row_count' = row_count /\ pc' = "rows") ]_vars
    /\ [][ pos' # pos => ((pc = "loop" /\ pos' = 0) \/ pos' = pos + 1) ]_vars

\* the row of 3 fields under a header of 2 was examined and left out, the row
\* after it was stored
C17_Witness ==
    /\ pc = "loop"
    /\ i = 1
    /\ event[1] = "A"
    /\ MisfitLines(1) = {3}
    /\ << 1, 3 >> \in examined
    /\ StoredLines(1) = {2, 4}

\* the items of a payload as the dispatched text still carries them
RawItemsKept(c) ==
    {k \in 1..Len(c.passed) :
        \E m \in 1..Len(c.args.input.items) : c.args.input.items[m] = c.passed[k]}

\* C18: when the serialized payload is longer than 250 * 1024, the input
\* handed to start_execution no longer carries the oversized content and is
\* itself no longer than 250 * 1024.
C18_DispatchedInputWithinBound ==
    \A c \in Dispatched :
        JsonDumps(c.passed).len > 250 * 1024 =>
            /\ c.args.input.len <= 250 * 1024
            /\ RawItemsKept(c) # 1..Len(c.passed)

\* the object of record j has no line the csv reader fails on
ParsesCleanly(j) == \A p \in 1..Len(Body(event[j])) : ~Body(event[j])[p].err

\* C19: a file whose status update failed, at the UPDATE or at its commit,
\* after its rows were ingested keeps the result success with the number of
\* rows it inserted (only a failed dispatch turns it into partial_success),
\* and those rows are in the store.
C19_StatusUpdateFailureNotEscalated ==
    /\ (/\ pc \in {"finally", "notify"}
        /\ StatusUpdateFailed(i)
        /\ ParsesCleanly(i)) =>
           /\ file_result.status = "success"
           /\ file_result.rows_inserted = row_count
           /\ Cardinality(StoredLines(i)) = row_count
    /\ \A j \in Finished :
           (StatusUpdateFailed(j) /\ ParsesCleanly(j)) =>
               /\ results[j].status \in {"success", "partial_success"}
               /\ results[j].status = "partial_success" =>
                      "stepfunctions_error" \in DOMAIN results[j]
               /\ results[j].rows_inserted = Cardinality(StoredLines(j))
               /\ StoredLines(j) = FittingLines(j) \ RejectedLines(j)

\* the commit of the status update failed for a file of two fitting rows: the
\* file is a success with 2 rows, which are stored and not marked processed
C19_Witness ==
    /\ pc = "loop"
    /\ i = 1
    /\ event[1] = "A"
    /\ << 1, "update_commit", 0 >> \in {<< f[1], f[2], 0 >> : f \in faults}
    /\ results[1].status = "success"
    /\ results[1].rows_inserted = 2
    /\ StoredLines(1) = {2, 4}
    /\ \A r \in db : ~r.processed

\* a step in which update_processing_status ran on an open connection and
\* neither its UPDATE nor its commit failed
StatusUpdated ==
    /\ pc \in {"status_update", "csv_error"}
    /\ pc' = "finally"
    /\ connection = "open"
    /\ faults' = faults

\* C20: after a status update for file name F with count N went through,
\* every stored row with file name F is processed with rows_count N, and
\* carries the error message cut to at most 1000 characters when one was
\* given; rows with another file name are as they were; no row is added or
\* removed; rows of the same name from another bucket or key are updated too.
C20_StatusUpdateMarksRowsOfTheName ==
    [][ StatusUpdated =>
          LET N == IF pc = "status_update" THEN row_count ELSE 0
          IN /\ \A r \in db' :
                    r.file_name = file_name =>
                        /\ r.processed
                        /\ r.rows_count = N
                        /\ pc = "csv_error" =>
                               /\ r.error_message.len = Min(19 + csv_error.len, 1000)
                               /\ r.error_message.len <= 1000
             /\ {r \in db' : r.file_name # file_name} = {r \in db : r.file_name # file_name}
             /\ {r \in db' : r.file_name # file_name} = {r \in tx : r.file_name # file_name}
             /\ Ids(db') = Ids(tx)
             /\ \A r \in db' : \E o \in tx :
                    /\ o.id = r.id /\ o.file_name = r.file_name
                    /\ o.s3_bucket = r.s3_bucket /\ o.s3_key = r.s3_key
                    /\ o.cols = r.cols /\ o.cells = r.cells ]_vars

\* the second file has the name of the first and another bucket and key: its
\* status update, with count 1, has reset the count of the first file's rows
C20_Witness ==
    /\ Len(event) = 2
    /\ i = 2
    /\ pc = "finally"
    /\ file_result.status = "success"
    /\ ~StatusUpdateFailed(2)
    /\ \E r \in db : r.src[1] = 2 /\ r.processed /\ r.rows_count = 1
    /\ \E r \in db : /\ r.src[1] = 1
                     /\ r.file_name = file_name
                     /\ r.s3_bucket # rec.bucket
                     /\ r.s3_key # rec.key
                     /\ r.processed
                     /\ r.rows_count = 1
    /\ results[1].rows_inserted = 2

\* the workflow ARN has a character that is not a blank
NonBlank(arn) == \E k \in 1..Len(arn) : arn[k] # " "

DispatchesFor(j) == {k \in 1..Len(sf_calls) : sf_calls[k].record = j}

\* C21: a dispatch is attempted only under a non-blank workflow ARN and for a
\* file whose ingestion status is success; a skipped or failed file has no
\* dispatch, a file has at most one, and a result is partial_success only if
\* its dispatch was attempted and failed.
C21_DispatchOnlyForSuccessUnderArn ==
    /\ [](\A c \in Dispatched :
              /\ NonBlank(env.STATE_MACHINE_ARN)
              /\ c.args.stateMachineArn = env.STATE_MACHINE_ARN)
    /\ [][ sf_calls' # sf_calls =>
              /\ file_result.status = "success"
              /\ Len(sf_calls') = Len(sf_calls) + 1
              /\ sf_calls'[Len(sf_calls')].record = i
              /\ DispatchesFor(i) = {} ]_vars
    /\ [](\A j \in 1..Len(event) : Cardinality(DispatchesFor(j)) <= 1)
    /\ [](\A j \in Finished :
              /\ results[j].status \in {"skipped", "failed"} => DispatchesFor(j) = {}
              /\ results[j].status = "partial_success" =>
                     \E k \in DispatchesFor(j) : ~sf_calls[k].ok
              /\ results[j].status = "success" =>
                     \A k \in DispatchesFor(j) : sf_calls[k].ok
              /\ (results[j].status = "success" /\ NonBlank(env.STATE_MACHINE_ARN)) =>
                     DispatchesFor(j) # {})

\* under a set ARN the first file failed and caused no dispatch, the second
\* was ingested and its one dispatch failed
C21_Witness ==
    /\ pc = "done"
    /\ Len(results) = 2
    /\ NonBlank(env.STATE_MACHINE_ARN)
    /\ results[1].status = "failed"
    /\ DispatchesFor(1) = {}
    /\ results[2].status = "partial_success"
    /\ Cardinality(DispatchesFor(2)) = 1
    /\ Len(sf_calls) = 1

ExaminedLines(j) == {p \in 2..Len(Body(event[j])) : << j, p >> \in examined}

\* C22: when the invocation returns, total_rows_inserted is the number of
\* rows committed to the store by this invocation, and a file whose result is
\* failed has no committed row.
C22_TotalIsEveryCommittedRow ==
    response # << >> =>
        /\ response[1].summary.total_rows_inserted = Cardinality(db)
        /\ \A j \in Finished : results[j].status = "failed" => StoredLines(j) = {}

\* C22, amended: when the invocation returns, total_rows_inserted is the
\* number of committed rows of the files that ended success or
\* partial_success; a failed or skipped file reports no rows_inserted, and
\* the rows a failed file committed before its error (full batches, and the
\* pending rows committed by the status update of a CSV error) stay in the
\* store uncounted.
C22_TotalIsCommittedRowsOfIngestedFiles ==
    response # << >> =>
        /\ response[1].summary.total_rows_inserted =
               Cardinality({r \in db : Ingested(r.src[1])})
        /\ response[1].summary.total_rows_inserted <= Cardinality(db)
        /\ \A j \in Finished :
               results[j].status \in {"failed", "skipped"} =>
                   /\ "rows_inserted" \notin DOMAIN results[j]
                   /\ StoredLines(j) \subseteq (FittingLines(j) \cap ExaminedLines(j))
                   /\ results[j].status = "skipped" => StoredLines(j) = {}

\* a file of 101 rows and a broken last line is answered as failed with a
\* total of 0 while its rows are committed: 100 by the batch commit and the
\* last one by the commit of the status update
C22_Witness ==
    /\ response # << >>
    /\ event = << "B" >>
    /\ results[1].status = "failed"
    /\ response[1].summary.total_rows_inserted = 0
    /\ Cardinality(StoredLines(1)) = BigRows
    /\ \A r \in db : r.processed /\ r.rows_count = 0

\* configuration and credentials are in hand, the loop over the records is
\* about to start
Prepared == pc = "loop" /\ i = 0

Returned ==
    /\ pc = "done"
    /\ response # << >>
    /\ response[1].statusCode = 200
    /\ Len(response[1].results) = Len(event)
    /\ \A j \in 1..Len(event) : response[1].results[j].status \in Statuses

\* C23: once the settings and the credentials are in hand the invocation
\* returns a response with statusCode 200 and one result per record, whatever
\* fails in the files; nothing a file does raises out of the handler; a file
\* has its terminal result before the next one starts.
C23_InvocationReturns ==
    /\ Prepared ~> Returned
    /\ [](pc = "raised" => i = 0 /\ results = << >>)
    /\ [][ i' # i =>
              /\ i' = i + 1
              /\ pc = "loop"
              /\ Len(results) = i
              /\ (i > 0 => results[i].status \in Statuses) ]_vars
    /\ [][ results' # results =>
              /\ Len(results) = i - 1
              /\ results' = Append(results, results'[i])
              /\ results'[i].status \in Statuses ]_vars

\* the invocation returned although both of its files failed, one at the read
\* of the object and one at the connection
C23_Witness ==
    /\ Returned
    /\ Len(results) = 2
    /\ results[1].status = "failed"
    /\ results[2].status = "failed"
    /\ {f[2] : f \in faults} = {"get_object", "connect"}

====
